---- MODULE Spec2Model ----
(***************************************************************************)
(* The indicator / crossover / backtest pipeline of src/app.py.            *)
(*                                                                         *)
(* Rows of the frame are numbered 1..Len(df); row r is pandas position     *)
(* r - 1, and the row number also stands for the (strictly increasing)     *)
(* timestamp of the bar.  Prices are integers; every float the script      *)
(* computes from them is kept as an exact fraction <<num, den>> with       *)
(* den > 0, and NaN is the empty tuple.  A comparison with NaN is false,   *)
(* as in IEEE arithmetic.                                                  *)
(***************************************************************************)
EXTENDS Integers, Sequences, FiniteSets

\* ---------------------------------------------------------------- bounds
MaxBars == 53
MaxRows == 4

\* ------------------------------------------------------ program constants
ShortWindow == 18
LongWindow == 50
MinSignalLen == 50
SignalStart == 50
RsiCom == 13
RsiMinPeriods == 14
SRWindow == 20

\* ------------------------------------------------------------ input sets
StartPrices == {60}
Slopes == {-1, 0, 1}
Levels == {1, 120}
Wicks == {0, 1}
LoopPrices == {1, 2}

\* ------------------------------------------------------- float-like values
NaN == <<>>
Num(n) == <<n, 1>>
IsNaN(v) == v = NaN
Gt(a, b) == ~IsNaN(a) /\ ~IsNaN(b) /\ a[1] * b[2] > b[1] * a[2]
Ge(a, b) == ~IsNaN(a) /\ ~IsNaN(b) /\ a[1] * b[2] >= b[1] * a[2]
Le(a, b) == ~IsNaN(a) /\ ~IsNaN(b) /\ a[1] * b[2] <= b[1] * a[2]
Eq(a, b) == ~IsNaN(a) /\ ~IsNaN(b) /\ a[1] * b[2] = b[1] * a[2]
Times(a, n, d) == IF IsNaN(a) THEN NaN ELSE <<a[1] * n, a[2] * d>>
\* One step of Series.sum(): skipna=True leaves a NaN entry out of the total.
Plus(a, b) ==
    IF IsNaN(b) THEN a
    ELSE IF IsNaN(a) THEN b
    ELSE <<a[1] * b[2] + b[1] * a[2], a[2] * b[2]>>

Max2(a, b) == IF a >= b THEN a ELSE b
Min2(a, b) == IF a <= b THEN a ELSE b

\* ------------------------------------------------------------ frame columns
Close(frame) == [r \in 1..Len(frame) |-> frame[r].Close]
High(frame) == [r \in 1..Len(frame) |-> frame[r].High]
Low(frame) == [r \in 1..Len(frame) |-> frame[r].Low]

RECURSIVE WinSum(_, _, _)
WinSum(x, lo, hi) == IF lo > hi THEN 0 ELSE x[hi] + WinSum(x, lo, hi - 1)

RECURSIVE WinMax(_, _, _)
WinMax(x, lo, hi) == IF lo = hi THEN x[hi] ELSE Max2(x[hi], WinMax(x, lo, hi - 1))

RECURSIVE WinMin(_, _, _)
WinMin(x, lo, hi) == IF lo = hi THEN x[hi] ELSE Min2(x[hi], WinMin(x, lo, hi - 1))

\* Series.rolling(window=w).mean(): NaN until w observations are in the window.
RollingMeanEager(x, w) ==
    [r \in 1..Len(x) |-> <<WinSum(x, Max2(1, r - w + 1), r), Min2(r, w)>>]
RollingMean(x, w) ==
    [r \in 1..Len(x) |-> IF r < w THEN NaN ELSE <<WinSum(x, r - w + 1, r), w>>]

\* Series.rolling(window=w).max() / .min()
RollingMax(x, w) ==
    [r \in 1..Len(x) |-> IF r < w THEN NaN ELSE Num(WinMax(x, r - w + 1, r))]
RollingMin(x, w) ==
    [r \in 1..Len(x) |-> IF r < w THEN NaN ELSE Num(WinMin(x, r - w + 1, r))]

\* ------------------------------------------ exact arithmetic for the ewm
\* A natural number is a little-endian sequence of limbs in 0..Base-1.
LimbDigits == 4
EwmDen == RsiCom + 1
Base == EwmDen ^ LimbDigits

Limb(a, k) == IF k <= Len(a) THEN a[k] ELSE 0

RECURSIVE BigCarry(_, _)
BigCarry(a, c) ==
    IF a = <<>>
    THEN IF c = 0 THEN <<>> ELSE <<c % Base>> \o BigCarry(<<>>, c \div Base)
    ELSE <<(Head(a) + c) % Base>> \o BigCarry(Tail(a), (Head(a) + c) \div Base)

BigOf(n) == BigCarry(<<n>>, 0)
BigMulSmall(a, m) == BigCarry([k \in 1..Len(a) |-> a[k] * m], 0)
BigAdd(a, b) == BigCarry([k \in 1..Max2(Len(a), Len(b)) |-> Limb(a, k) + Limb(b, k)], 0)
\* n * EwmDen^e
BigShift(n, e) ==
    [k \in 1..(e \div LimbDigits) |-> 0] \o BigOf(n * EwmDen ^ (e % LimbDigits))
BigIsZero(a) == \A k \in 1..Len(a) : a[k] = 0
BigLess(a, b) ==
    \E k \in 1..Max2(Len(a), Len(b)) :
        /\ Limb(a, k) < Limb(b, k)
        /\ \A j \in (k + 1)..Max2(Len(a), Len(b)) : Limb(a, j) = Limb(b, j)
BigLeq(a, b) == ~BigLess(b, a)

\* ------------------------------------------------------------ Wilder's RSI
\* delta = Close.diff(); gain = delta.where(delta > 0, 0); the NaN of row 1
\* fails the test and becomes 0.
Gain(x) == [r \in 1..Len(x) |-> IF r = 1 THEN 0 ELSE Max2(x[r] - x[r - 1], 0)]
\* loss = -delta.where(delta < 0, 0)
Loss(x) == [r \in 1..Len(x) |-> IF r = 1 THEN 0 ELSE Max2(x[r - 1] - x[r], 0)]

\* ewm(com=13, adjust=False): y[1] = x[1], y[r] = (13 * y[r-1] + x[r]) / 14.
\* EwmScaled gives the numerators S[r] = y[r] * 14^(r-1).
RECURSIVE EwmScaled(_, _, _)
EwmScaled(x, r, acc) ==
    IF r > Len(x) THEN acc
    ELSE EwmScaled(x, r + 1,
            Append(acc, IF r = 1 THEN BigOf(x[1])
                        ELSE BigAdd(BigMulSmall(acc[r - 1], RsiCom), BigShift(x[r], r - 2))))

\* ... .mean() with min_periods=14: NaN before the 14th observation.  A
\* defined entry is <<S>>, the numerator over 14^(r-1).
EwmMean(x) ==
    LET S == EwmScaled(x, 1, <<>>)
    IN  [r \in 1..Len(x) |-> IF r < RsiMinPeriods THEN NaN ELSE <<S[r]>>]

\* rs = avg_gain / avg_loss; RSI = 100 - 100 / (1 + rs).  g and l are the
\* numerators of one row, over the same power of 14.  The result <<m, s, d>>
\* is the number (m - s) / d:  0/0 is NaN, x/0 is inf and 100/(1+inf) is 0.
RsiValueNoOne(g, l) ==
    IF BigIsZero(g)
    THEN IF BigIsZero(l) THEN NaN ELSE <<BigOf(0), BigOf(1), BigOf(1)>>
    ELSE <<BigMulSmall(g, 100), BigMulSmall(l, 100), g>>
RsiValue(g, l) ==
    IF BigIsZero(l)
    THEN IF BigIsZero(g) THEN NaN ELSE <<BigOf(100), BigOf(0), BigOf(1)>>
    ELSE <<BigMulSmall(BigAdd(l, g), 100), BigMulSmall(l, 100), BigAdd(l, g)>>

RsiCol(x) ==
    LET avg_gain == EwmMean(Gain(x))
        avg_loss == EwmMean(Loss(x))
    IN  [r \in 1..Len(x) |->
            IF IsNaN(avg_gain[r]) \/ IsNaN(avg_loss[r]) THEN NaN
            ELSE RsiValue(avg_gain[r][1], avg_loss[r][1])]

\* ------------------------------------------------------ crossover detection
\* df['Signal'] = 0.0, then rows from position 50 on get 1.0 where
\* SMA18 > SMA50, when the frame has more than 50 rows.
SignalColFrom49(sma18, sma50) ==
    [r \in 1..Len(sma18) |->
        IF Len(sma18) > MinSignalLen /\ r > SignalStart - 1 /\ Gt(sma18[r], sma50[r])
        THEN 1 ELSE 0]
SignalCol(sma18, sma50) ==
    [r \in 1..Len(sma18) |->
        IF Len(sma18) > MinSignalLen /\ r > SignalStart /\ Gt(sma18[r], sma50[r])
        THEN 1 ELSE 0]

\* df['Position'] = df['Signal'].diff() in the same branch, else the constant 0.
PositionColInitialNotEvent(signal) ==
    IF Len(signal) > MinSignalLen
    THEN [r \in 1..Len(signal) |->
            IF r = 1 THEN NaN
            ELSE IF r = SignalStart + 1 THEN Num(0)
            ELSE Num(signal[r] - signal[r - 1])]
    ELSE [r \in 1..Len(signal) |-> Num(0)]
PositionColDiff2(signal) ==
    IF Len(signal) > MinSignalLen
    THEN [r \in 1..Len(signal) |-> IF r <= 2 THEN NaN ELSE Num(signal[r] - signal[r - 2])]
    ELSE [r \in 1..Len(signal) |-> Num(0)]
PositionCol(signal) ==
    IF Len(signal) > MinSignalLen
    THEN [r \in 1..Len(signal) |-> IF r = 1 THEN NaN ELSE Num(signal[r] - signal[r - 1])]
    ELSE [r \in 1..Len(signal) |-> Num(0)]

\* ---------------------------------------------------------- trend sentiment
Bullish == {"BULLISH_APPROACHING", "BULLISH_BREAKOUT", "BULLISH_HEALTHY"}
Bearish == {"BEARISH_NEAR_SUPPORT", "BEARISH_DOWNWARD"}

SentimentBreakoutFirst(curr_price, curr_res, curr_sup, curr_18, curr_50) ==
    IF Gt(curr_18, curr_50)
    THEN IF Ge(curr_price, curr_res) THEN "BULLISH_BREAKOUT"
         ELSE IF Ge(curr_price, Times(curr_res, 99, 100)) THEN "BULLISH_APPROACHING"
         ELSE "BULLISH_HEALTHY"
    ELSE IF Le(curr_price, Times(curr_sup, 101, 100)) THEN "BEARISH_NEAR_SUPPORT"
         ELSE "BEARISH_DOWNWARD"
Sentiment(curr_price, curr_res, curr_sup, curr_18, curr_50) ==
    IF Gt(curr_18, curr_50)
    THEN IF Ge(curr_price, Times(curr_res, 99, 100)) THEN "BULLISH_APPROACHING"
         ELSE IF Gt(curr_price, curr_res) THEN "BULLISH_BREAKOUT"
         ELSE "BULLISH_HEALTHY"
    ELSE IF Le(curr_price, Times(curr_sup, 101, 100)) THEN "BEARISH_NEAR_SUPPORT"
         ELSE "BEARISH_DOWNWARD"

\* -------------------------------------------------------- backtesting engine
\* One iteration of `for date, row in df.iterrows()`.  st holds trades,
\* buy_price, buy_date and in_position.
Trade(st, date, price) ==
    [BuyDate |-> st.buy_date, SellDate |-> date, BuyPrice |-> st.buy_price,
     SellPrice |-> price, Profit |-> <<(price - st.buy_price) * 100, st.buy_price>>]

RowStepSellIfBought(st, date, price, position) ==
    IF Eq(position, Num(1))
    THEN [st EXCEPT !.buy_price = price, !.buy_date = date, !.in_position = TRUE]
    ELSE IF Eq(position, Num(-1)) /\ st.buy_price > 0
    THEN [st EXCEPT !.trades = Append(@, Trade(st, date, price)), !.in_position = FALSE]
    ELSE st
RowStepRefreshEntry(st, date, price, position) ==
    IF Eq(position, Num(1)) \/ (st.in_position /\ Eq(position, Num(0)))
    THEN [st EXCEPT !.buy_price = price, !.buy_date = date, !.in_position = TRUE]
    ELSE IF Eq(position, Num(-1)) /\ st.in_position
    THEN [st EXCEPT !.trades = Append(@, Trade(st, date, price)), !.in_position = FALSE]
    ELSE st
RowStep(st, date, price, position) ==
    IF Eq(position, Num(1))
    THEN [st EXCEPT !.buy_price = price, !.buy_date = date, !.in_position = TRUE]
    ELSE IF Eq(position, Num(-1)) /\ st.in_position
    THEN [st EXCEPT !.trades = Append(@, Trade(st, date, price)), !.in_position = FALSE]
    ELSE st

\* ------------------------------------------------------------ results display
RECURSIVE SumProfit(_, _)
SumProfit(t, k) == IF k = 0 THEN Num(0) ELSE Plus(SumProfit(t, k - 1), t[k].Profit)

\* Series.mean() divides the NaN-skipping sum by the number of non-NaN
\* entries, and is NaN when there is none.
Observed(t) == Cardinality({k \in 1..Len(t) : ~IsNaN(t[k].Profit)})
MeanProfit(t) ==
    IF Observed(t) = 0 THEN NaN ELSE Times(SumProfit(t, Len(t)), 1, Observed(t))

Wins(t) == Cardinality({k \in 1..Len(t) : Gt(t[k].Profit, Num(0))})

Pending ==
    [outcome |-> "pending", total_ret |-> NaN, win_rate |-> NaN, n_trades |-> NaN,
     avg_profit |-> NaN]

SummaryWinsNonNegative(t) ==
    IF t # <<>>
    THEN [outcome |-> "metrics",
          total_ret |-> SumProfit(t, Len(t)),
          win_rate |-> <<Cardinality({k \in 1..Len(t) : Ge(t[k].Profit, Num(0))}) * 100, Len(t)>>,
          n_trades |-> Num(Len(t)),
          avg_profit |-> MeanProfit(t)]
    ELSE [Pending EXCEPT !.outcome = "no_trades"]
Summary(t) ==
    IF t # <<>>
    THEN [outcome |-> "metrics",
          total_ret |-> SumProfit(t, Len(t)),
          win_rate |-> <<Wins(t) * 100, Len(t)>>,
          n_trades |-> Num(Len(t)),
          avg_profit |-> MeanProfit(t)]
    ELSE [Pending EXCEPT !.outcome = "no_trades"]

\* ================================================================== state
VARIABLES pc, df, SMA18, SMA50, RSI, Resistance, Support, Signal, Position,
          sentiment, trades, buy_price, buy_date, in_position, i, summary

frameVars == <<df, SMA18, SMA50, RSI, Resistance, Support, Signal, Position>>
loopVars == <<trades, buy_price, buy_date, in_position, i>>
vars == <<pc, frameVars, sentiment, loopVars, summary>>

WarmBars == LongWindow - 1

Bar(c, w) == [Close |-> c, High |-> c + w, Low |-> IF c > w THEN c - w ELSE c]

NextCloses(frame) ==
    IF frame = <<>> THEN StartPrices
    ELSE IF Len(frame) = 1 THEN {frame[1].Close + d : d \in Slopes}
    ELSE IF Len(frame) < WarmBars
    THEN {2 * frame[Len(frame)].Close - frame[Len(frame) - 1].Close}
    ELSE {frame[Len(frame)].Close + 1} \cup Levels

NextWicks(frame) == IF frame = <<>> THEN Wicks ELSE {frame[1].High - frame[1].Close}

\* The frame yf.download returns, before any calculation.
Init ==
    /\ pc = "fetch"
    /\ df = <<>>
    /\ SMA18 = <<>> /\ SMA50 = <<>> /\ RSI = <<>>
    /\ Resistance = <<>> /\ Support = <<>>
    /\ Signal = <<>> /\ Position = <<>>
    /\ sentiment = ""
    /\ trades = <<>> /\ buy_price = 0 /\ buy_date = 0 /\ in_position = FALSE
    /\ i = 1
    /\ summary = Pending

\* One more bar of the downloaded history.  The first WarmBars closes run on
\* a constant slope and every bar carries the same upper/lower wick; later
\* closes step up by one or jump to one of Levels.
AddBar ==
    /\ pc = "fetch"
    /\ Len(df) < MaxBars
    /\ \E c \in NextCloses(df), w \in NextWicks(df) : df' = Append(df, Bar(c, w))
    /\ UNCHANGED <<pc, SMA18, SMA50, RSI, Resistance, Support, Signal, Position,
                   sentiment, loopVars, summary>>

\* if df.empty: st.error("No data found")
NoData ==
    /\ pc = "fetch"
    /\ df = <<>>
    /\ pc' = "done"
    /\ summary' = [Pending EXCEPT !.outcome = "no_data"]
    /\ UNCHANGED <<frameVars, sentiment, loopVars>>

\* Section 2 of the script: every derived column.
Calculations ==
    /\ pc = "fetch"
    /\ df # <<>>
    /\ SMA18' = RollingMean(Close(df), ShortWindow)
    /\ SMA50' = RollingMean(Close(df), LongWindow)
    /\ RSI' = RsiCol(Close(df))
    /\ Resistance' = RollingMax(High(df), SRWindow)
    /\ Support' = RollingMin(Low(df), SRWindow)
    /\ Signal' = SignalCol(SMA18', SMA50')
    /\ Position' = PositionCol(Signal')
    /\ pc' = "sentiment"
    /\ UNCHANGED <<df, sentiment, loopVars, summary>>

\* Section 3: the sentiment of the last bar.
TrendSentiment ==
    /\ pc = "sentiment"
    /\ sentiment' = Sentiment(Num(df[Len(df)].Close), Resistance[Len(df)],
                              Support[Len(df)], SMA18[Len(df)], SMA50[Len(df)])
    /\ pc' = "backtest"
    /\ UNCHANGED <<frameVars, loopVars, summary>>

LoopState ==
    [trades |-> trades, buy_price |-> buy_price, buy_date |-> buy_date,
     in_position |-> in_position]

\* Section 4: one row of the backtest loop.
BacktestRow ==
    /\ pc = "backtest"
    /\ i <= Len(df)
    /\ LET st == RowStep(LoopState, i, df[i].Close, Position[i])
       IN  /\ trades' = st.trades
           /\ buy_price' = st.buy_price
           /\ buy_date' = st.buy_date
           /\ in_position' = st.in_position
    /\ i' = i + 1
    /\ UNCHANGED <<pc, frameVars, sentiment, summary>>

\* Section 6: the performance summary of the finished ledger.
Display ==
    /\ pc = "backtest"
    /\ i > Len(df)
    /\ summary' = Summary(trades)
    /\ pc' = "done"
    /\ UNCHANGED <<frameVars, sentiment, loopVars>>

Next == AddBar \/ NoData \/ Calculations \/ TrendSentiment \/ BacktestRow \/ Display

Spec == Init /\ [][Next]_vars

\* ---------------------------------------------- the backtest loop on its own
\* The loop body and the summary applied to every short Position column: the
\* first row may be NaN (as after diff()), every row is -1, 0 or 1.  This is
\* a superset of the columns Calculations writes (constant 0, or the
\* alternating diff of a 0/1 Signal); it carries only properties that hold of
\* the loop whatever the column, and no behaviour of the whole script is
\* read off it.
LoopPositions == {Num(-1), Num(0), Num(1)}

LoopInit ==
    /\ pc = "backtest"
    /\ \E n \in 1..MaxRows :
        /\ df \in [1..n -> {Bar(c, 0) : c \in LoopPrices}]
        /\ Position \in [1..n -> LoopPositions \cup {NaN}]
        /\ \A r \in 2..n : Position[r] # NaN
    /\ SMA18 = <<>> /\ SMA50 = <<>> /\ RSI = <<>>
    /\ Resistance = <<>> /\ Support = <<>>
    /\ Signal = <<>>
    /\ sentiment = ""
    /\ trades = <<>> /\ buy_price = 0 /\ buy_date = 0 /\ in_position = FALSE
    /\ i = 1
    /\ summary = Pending

LoopNext == BacktestRow \/ Display

LoopSpec == LoopInit /\ [][LoopNext]_vars

\* ================================================================ properties
\* The derived columns are written once, by Calculations, and only read
\* afterwards: properties of the columns are stated of the state it leaves.
Computed == pc = "sentiment"
Classified == pc = "backtest" \/ (pc = "done" /\ df # <<>>)
Rows == 1..Len(df)
FirstSignalRow == SignalStart + 1
Above(r) == Gt(SMA18[r], SMA50[r])
BuyRows == {r \in Rows : Eq(Position[r], Num(1))}
SellRows == {r \in Rows : Eq(Position[r], Num(-1))}
StrictlyIncreasing == Len(df) >= 2 /\ \A r \in 2..Len(df) : df[r].Close > df[r - 1].Close

\* C1 (as claimed): the first bar at which the Signal is evaluated only fixes
\* the initial state: if SMA18 > SMA50 holds there, no BuyCross is recorded
\* for it, and a BuyCross is recorded only where the comparison is true and
\* was false at the previous bar with both SMAs defined.
C1_FirstBarNotAnEvent ==
    (Computed /\ Len(df) > MinSignalLen) =>
        /\ Above(FirstSignalRow) => FirstSignalRow \notin BuyRows
        /\ \A r \in BuyRows : r > LongWindow /\ Above(r) /\ ~Above(r - 1)

\* C1 (amended): the first evaluated bar (position 50) is compared with the
\* Signal 0 of every earlier bar, so a BuyCross is recorded there exactly
\* when SMA18 > SMA50 holds at it, whatever the comparison gave at bar 49;
\* at each later bar a BuyCross is recorded exactly when the comparison is
\* true there and false at the bar before; no other bar carries a BuyCross.
C1_FirstBarIsAnEvent ==
    Computed =>
        BuyRows = {r \in Rows : /\ Len(df) > MinSignalLen
                                /\ r >= FirstSignalRow
                                /\ Above(r)
                                /\ r > FirstSignalRow => ~Above(r - 1)}

\* C1 witness: SMA18 > SMA50 already held at bar 49, still holds at bar 50,
\* and bar 50 carries a BuyCross.
C1_Witness ==
    /\ Computed /\ Len(df) > FirstSignalRow
    /\ Above(FirstSignalRow - 1) /\ Above(FirstSignalRow)
    /\ FirstSignalRow \in BuyRows

\* C4 (as claimed): when the last bar has no SMA50, the trend sentiment of
\* the last bar is neither a Bullish nor a Bearish classification.
C4_NoSentimentOnUndefined ==
    (Classified /\ IsNaN(SMA50[Len(df)])) => sentiment \notin Bullish \cup Bearish

\* C5 (as claimed): a strictly increasing close series has exactly one
\* BuyCross, at the bar where SMA18 first exceeds SMA50, and no SellCross.
C5_OneBuyAtFirstExceed ==
    (Computed /\ StrictlyIncreasing) =>
        /\ SellRows = {}
        /\ \E b \in Rows :
            /\ BuyRows = {b}
            /\ Above(b)
            /\ \A r \in 1..(b - 1) : ~Above(r)

\* C5 (amended): a strictly increasing close series of more than 50 bars has
\* exactly one BuyCross, at position 50 (the first bar the Signal is
\* evaluated at, one bar after SMA18 first exceeds SMA50 at position 49),
\* and no SellCross; with at most 50 bars it has neither.
C5_OneBuyAtFirstEvaluatedBar ==
    (Computed /\ StrictlyIncreasing) =>
        /\ SellRows = {}
        /\ BuyRows = IF Len(df) > MinSignalLen THEN {FirstSignalRow} ELSE {}
        /\ \A r \in Rows : Above(r) <=> r >= LongWindow

\* C5 witness: a strictly increasing series that runs past the BuyCross.
C5_Witness ==
    /\ Computed /\ StrictlyIncreasing
    /\ Len(df) > FirstSignalRow
    /\ BuyRows = {FirstSignalRow}

\* C6: a series of fewer than 50 bars has no defined SMA50 entry, no
\* BuyCross or SellCross, and ends with an empty ledger and the defined
\* "no completed trades" outcome.
C6_ShortSeriesEmpty ==
    (pc # "fetch" /\ df # <<>> /\ Len(df) < LongWindow) =>
        /\ \A r \in Rows : IsNaN(SMA50[r])
        /\ BuyRows = {} /\ SellRows = {}
        /\ trades = <<>>
        /\ pc = "done" => summary.outcome = "no_trades"

\* C6 witness: the longest short series, run to the end.
C6_Witness == pc = "done" /\ Len(df) = LongWindow - 1 /\ summary.outcome = "no_trades"

\* C8: every defined RSI entry lies in [0, 100]; zero average loss with a
\* positive average gain gives 100; both averages zero gives NaN.
C8_RsiBounded ==
    pc = "sentiment" =>
        LET g == EwmMean(Gain(Close(df)))
            l == EwmMean(Loss(Close(df)))
        IN  \A r \in Rows :
              /\ ~IsNaN(RSI[r]) =>
                    /\ BigLeq(RSI[r][2], RSI[r][1])
                    /\ BigLeq(RSI[r][1], BigAdd(BigMulSmall(RSI[r][3], 100), RSI[r][2]))
              /\ (r >= RsiMinPeriods /\ BigIsZero(l[r][1]) /\ ~BigIsZero(g[r][1])) =>
                    /\ ~IsNaN(RSI[r])
                    /\ BigLeq(BigAdd(BigMulSmall(RSI[r][3], 100), RSI[r][2]), RSI[r][1])
              /\ (r >= RsiMinPeriods /\ BigIsZero(l[r][1]) /\ BigIsZero(g[r][1])) =>
                    IsNaN(RSI[r])

\* C8 witness: one series with an undefined RSI after a flat run, an RSI of
\* 100 after gains only, and an RSI strictly inside (0, 100).
C8_Witness ==
    /\ pc = "sentiment"
    /\ \E r \in Rows : r >= RsiMinPeriods /\ IsNaN(RSI[r])
    /\ \E r \in Rows :
        /\ ~IsNaN(RSI[r])
        /\ BigLeq(BigAdd(BigMulSmall(RSI[r][3], 100), RSI[r][2]), RSI[r][1])
    /\ \E r \in Rows :
        /\ ~IsNaN(RSI[r])
        /\ BigLess(RSI[r][2], RSI[r][1])
        /\ BigLess(RSI[r][1], BigAdd(BigMulSmall(RSI[r][3], 100), RSI[r][2]))

\* C9: the non-zero Position values alternate +1, -1, +1, ... starting with
\* +1; after a row with a defined Position is processed in_position equals
\* (Signal = 1) at that row; a BuyCross row is never processed while in a
\* position and a SellCross row never while flat.
Events == BuyRows \cup SellRows
C9_Alternation ==
    /\ Computed =>
        \A r \in Events :
            LET before == {q \in Events : q < r}
            IN  IF before = {} THEN r \in BuyRows
                ELSE \E q \in before :
                        /\ \A m \in before : m <= q
                        /\ (q \in BuyRows) # (r \in BuyRows)
    /\ Classified =>
        /\ (i > 1 /\ ~IsNaN(Position[i - 1])) => (in_position <=> Signal[i - 1] = 1)
        /\ (pc = "backtest" /\ i \in BuyRows) => ~in_position
        /\ (pc = "backtest" /\ i \in SellRows) => in_position

\* C9 witness: the loop is about to process a second BuyCross, flat again
\* after a closed trade.
C9_Witness == pc = "backtest" /\ i \in BuyRows /\ trades # <<>> /\ ~in_position

\* C10: the sentiment is never the breakout outcome, and the last close
\* never exceeds the last Resistance.
C10_NoBreakout ==
    Classified =>
        /\ sentiment # "BULLISH_BREAKOUT"
        /\ ~Gt(Num(df[Len(df)].Close), Resistance[Len(df)])

\* C10 witness: a bullish last bar closing exactly at its Resistance.
C10_Witness ==
    /\ Classified
    /\ sentiment = "BULLISH_APPROACHING"
    /\ Eq(Num(df[Len(df)].Close), Resistance[Len(df)])

\* ------------------------------------------------- properties of the loop
\* Rows the loop reaches with a position open: a BuyCross precedes them with
\* no SellCross in between.
OpenAt(r) == \E b \in BuyRows : b < r /\ \A m \in SellRows : ~(b < m /\ m < r)
OpenSells == {r \in SellRows : OpenAt(r)}
\* The BuyCross that opened the position a sell at row r closes.
Opener(r) == CHOOSE b \in BuyRows : b < r /\ ~OpenAt(b) /\ \A m \in SellRows : ~(b < m /\ m < r)

C3_LedgerIsClosedPairs ==
    pc = "done" =>
        /\ Len(trades) = Cardinality(OpenSells)
        /\ \A k \in 1..Len(trades) :
            /\ trades[k].SellDate \in OpenSells
            /\ Cardinality({r \in OpenSells : r <= trades[k].SellDate}) = k
            /\ trades[k].BuyDate \in BuyRows
            /\ trades[k].BuyDate < trades[k].SellDate
        /\ in_position =>
            /\ buy_date \in BuyRows
            /\ \A k \in 1..Len(trades) :
                trades[k].BuyDate # buy_date /\ trades[k].SellDate < buy_date

\* C3 witness: a closed trade followed by a BuyCross that is never sold.
C3_Witness == pc = "done" /\ in_position /\ trades # <<>>

\* C7: an empty ledger gives the "no completed trades" outcome and none of
\* the four metrics; otherwise the trade count is the ledger length and the
\* win rate is the share of trades with Profit % > 0 (shown in percent).
C7_SummarySafe ==
    pc = "done" =>
        IF trades = <<>>
        THEN /\ summary.outcome = "no_trades"
             /\ IsNaN(summary.total_ret) /\ IsNaN(summary.win_rate)
             /\ IsNaN(summary.n_trades) /\ IsNaN(summary.avg_profit)
        ELSE /\ summary.outcome = "metrics"
             /\ Eq(summary.n_trades, Num(Len(trades)))
             /\ summary.win_rate[2] > 0
             /\ Eq(summary.win_rate,
                   <<100 * Cardinality({k \in 1..Len(trades) :
                                          trades[k].SellPrice > trades[k].BuyPrice}),
                     Len(trades)>>)

\* C7 witness: only a trailing unmatched BuyCross, so the ledger is empty.
C7_Witness ==
    pc = "done" /\ trades = <<>> /\ in_position /\ summary.outcome = "no_trades"

====
